---- MODULE Spec2Model ----
(***************************************************************************)
(* The in-process cache/queue backend (type Memory): the item store with   *)
(* read-triggered eviction, the counters, the channel queue with its       *)
(* producer and dispatcher goroutines, and Run/Shutdown on the WaitGroup.  *)
(*                                                                         *)
(* Go strings are sequences of one-character strings.  A string variable   *)
(* is two machine words (data pointer, length); item.Value is read and     *)
(* written one word at a time, because the code accesses it from several   *)
(* goroutines with no exclusion (Memory.mutex is only ever read-locked).   *)
(* The clock counts seconds and moves at any moment, also in the middle of *)
(* a call.  A Go int is 64 bits wide and is kept as a sign and decimal     *)
(* digits, so that it has the range and the wrap-around of the program's;  *)
(* so are a ttl and an expiry instant.  Connect, which makes the two maps, *)
(* is the construction (Init) and a call that can be made again.           *)
(***************************************************************************)
EXTENDS Integers, Sequences, FiniteSets, TLC

VARIABLES
    items,      \* Memory.items: sync.Map, key -> *item (a heap address)
    heap,       \* the item objects: address -> [vptr, vlen, Expired]; vptr is
                \* the string's data and where in memory they are
    now,        \* time.Now(), in seconds
    readers,    \* Memory.mutex: number of read locks held
    pc,         \* per caller goroutine: the step it is at ("idle": no call)
    call,       \* per caller goroutine: the call in progress (or the last one)
    loc,        \* per caller goroutine: the locals of the call in progress
    ret,        \* per caller goroutine: what its last completed call returned
    ncalls,     \* number of calls made so far
    lastw,      \* history: per key, the last write to the store, the callers that
                \* were between getItem's expiry check and its delete then, and
                \* for an eviction the write whose entry it deleted
    cnt,        \* history: per key, the integer the counter calls add up to
    PoolNum,    \* Memory.PoolNum: the capacity of the channels made
    queue,      \* Memory.queue: sync.Map, stream name -> channel
    chans,      \* the channels made: the messages buffered in each
    msgs,       \* the message objects: address -> [ID, Stream, ...]
    senders,    \* the goroutines Append starts (lines 183-186)
    disps,      \* the goroutines Register starts (lines 206-215)
    log,        \* history: the handler invocations, in order
    wg,         \* Memory.wait: the WaitGroup's counter, waiters and wake-ups
    owed,       \* history: the callers whose Run was in progress at a Shutdown
    nrun        \* number of Run, of Shutdown and of Connect calls made so far

storeVars == <<items, heap, now, lastw, cnt>>
queueVars == <<PoolNum, queue, chans, msgs, senders, disps, log>>
runVars == <<wg, owed, nrun>>

vars == <<items, heap, now, readers, pc, call, loc, ret, ncalls, lastw, cnt,
          PoolNum, queue, chans, msgs, senders, disps, log, wg, owed, nrun>>

---------------------------------------------------------------------------
(* Bounds *)

NThreads == 3       \* goroutines that call the backend
NCallers == 2       \* of them, those that call the item store and the queue
MaxCalls == 2       \* item store calls made in one behaviour
MaxTime == 3        \* seconds the clock runs
MaxAppend == 2      \* Append calls made in one behaviour
MaxRegister == 2    \* Register calls made in one behaviour
MaxRun == 2         \* Run calls made in one behaviour
MaxDeliver == 4      \* deliveries made to a handler that always fails
MaxShutdown == 2    \* Shutdown calls made in one behaviour
MaxConnect == 1     \* Connect calls made in one behaviour, after the first

Threads == 1..NThreads
Callers == 1..NCallers

(* Input domains *)

Keys == {<<"a">>, <<"a", "b">>}
HashArgs == {<<(<<"a">>), (<<>>)>>, <<(<<"a">>), (<<"b">>)>>, <<(<<"a", "b">>), (<<>>)>>}

\* The ttls passed to Set.  The last is the least whose Duration, in
\* nanoseconds, is more than an int64 holds.
WrapTTL == [neg |-> FALSE, mag |-> <<9, 2, 2, 3, 3, 7, 2, 0, 3, 7>>]
Expires == {[neg |-> FALSE, mag |-> <<0>>], [neg |-> FALSE, mag |-> <<1>>], WrapTTL}
Durs == {1}

StrVal(s) == [t |-> "string", s |-> s, i |-> 0, b |-> FALSE]
IntVal(i) == [t |-> "int", s |-> <<>>, i |-> i, b |-> FALSE]
BoolVal(b) == [t |-> "bool", s |-> <<>>, i |-> 0, b |-> b]
NilVal == [t |-> "nil", s |-> <<>>, i |-> 0, b |-> FALSE]
StructVal == [t |-> "struct", s |-> <<>>, i |-> 0, b |-> FALSE]

Vals == {StrVal(<<"0">>), IntVal(10), BoolVal(TRUE), StructVal}

Streams == {"s"}
PoolNums == {0, 1}
Handlers == {"ok", "failOnce"}
RetryHandlers == {"failAlways"}

---------------------------------------------------------------------------
(* strconv and cast.  Go's int is 64 bits wide here.  An integer (an int,  *)
(* or the uint64 ParseUint computes) is a sign and the decimal digits of   *)
(* its magnitude, most significant first, with no leading zero.            *)

Digits == <<"0", "1", "2", "3", "4", "5", "6", "7", "8", "9">>
Letters == <<"a", "b", "c", "d", "e", "f", "g", "h", "i", "j", "k", "l", "m",
             "n", "o", "p", "q", "r", "s", "t", "u", "v", "w", "x", "y", "z">>
Capitals == <<"A", "B", "C", "D", "E", "F", "G", "H", "I", "J", "K", "L", "M",
              "N", "O", "P", "Q", "R", "S", "T", "U", "V", "W", "X", "Y", "Z">>

IsDigit(c) == \E i \in 1..10 : Digits[i] = c
IsLetter(c) == \E i \in 1..26 : Letters[i] = c

\* strconv's lower(c), c | ('x' - 'X'): a capital becomes its small letter,
\* a small letter stays, and no other byte becomes a letter.
lower(c) ==
    IF \E i \in 1..26 : Capitals[i] = c
    THEN Letters[CHOOSE i \in 1..26 : Capitals[i] = c]
    ELSE c

\* The value of a byte in ParseUint's loop: c - '0' for a digit,
\* lower(c) - 'a' + 10 for a letter of either case; -1: neither.
DigitOf(c) ==
    IF IsDigit(c) THEN (CHOOSE i \in 1..10 : Digits[i] = c) - 1
    ELSE LET lc == lower(c)
         IN IF IsLetter(lc) THEN (CHOOSE i \in 1..26 : Letters[i] = lc) + 9
            ELSE -1

Zero == [neg |-> FALSE, mag |-> <<0>>]

\* The decimal digits of a natural number.
RECURSIVE NatDigits(_)
NatDigits(n) ==
    IF n < 10 THEN <<n>>
    ELSE NatDigits(n \div 10) \o <<n % 10>>

\* An int given in the model's own integers.
IntOf(i) == [neg |-> i < 0, mag |-> NatDigits(IF i < 0 THEN -i ELSE i)]

\* 1<<64 - 1, 1<<63 - 1 and -(1<<63)
MaxUint64 == <<1, 8, 4, 4, 6, 7, 4, 4, 0, 7, 3, 7, 0, 9, 5, 5, 1, 6, 1, 5>>
MaxInt64 == [neg |-> FALSE, mag |-> <<9, 2, 2, 3, 3, 7, 2, 0, 3, 6, 8, 5, 4, 7, 7, 5, 8, 0, 7>>]
MinInt64 == [neg |-> TRUE, mag |-> <<9, 2, 2, 3, 3, 7, 2, 0, 3, 6, 8, 5, 4, 7, 7, 5, 8, 0, 8>>]

\* Leading zeros dropped.
RECURSIVE Strip(_)
Strip(m) == IF Len(m) > 1 /\ Head(m) = 0 THEN Strip(Tail(m)) ELSE m

\* x < y, for magnitudes.
RECURSIVE LexLess(_, _)
LexLess(x, y) ==
    IF x = <<>> THEN FALSE
    ELSE IF Head(x) # Head(y) THEN Head(x) < Head(y)
    ELSE LexLess(Tail(x), Tail(y))

MagLess(x, y) == IF Len(x) # Len(y) THEN Len(x) < Len(y) ELSE LexLess(x, y)

\* m * base + carry, digit by digit from the right.
RECURSIVE MulAddDigits(_, _, _)
MulAddDigits(m, base, carry) ==
    IF m = <<>> THEN (IF carry = 0 THEN <<>> ELSE NatDigits(carry))
    ELSE LET v == m[Len(m)] * base + carry
         IN MulAddDigits(SubSeq(m, 1, Len(m) - 1), base, v \div 10) \o <<v % 10>>

\* n*base + d
MulAdd(n, base, d) == Strip(MulAddDigits(n, base, d))

\* m - 1 for m > 0, digit by digit from the right.
RECURSIVE Borrow(_)
Borrow(m) ==
    IF m[Len(m)] > 0 THEN [m EXCEPT ![Len(m)] = @ - 1]
    ELSE Borrow(SubSeq(m, 1, Len(m) - 1)) \o <<9>>

\* n + 1 and n - 1 in the integers.
Succ(n) ==
    IF ~n.neg THEN [n EXCEPT !.mag = MulAdd(@, 1, 1)]
    ELSE IF n.mag = <<1>> THEN Zero
    ELSE [n EXCEPT !.mag = Strip(Borrow(@))]

Pred(n) ==
    IF n.neg THEN [n EXCEPT !.mag = MulAdd(@, 1, 1)]
    ELSE IF n.mag = <<0>> THEN [neg |-> TRUE, mag |-> <<1>>]
    ELSE [n EXCEPT !.mag = Strip(Borrow(@))]

\* n + num on Go's int: past either end of the range the sum wraps round to
\* the other end.
RECURSIVE AddInt(_, _)
AddInt(n, num) ==
    IF num = 0 THEN n
    ELSE IF num > 0 THEN AddInt(IF n = MaxInt64 THEN MinInt64 ELSE Succ(n), num - 1)
    ELSE AddInt(IF n = MinInt64 THEN MaxInt64 ELSE Pred(n), num + 1)

\* n + k in the integers, where nothing wraps.
RECURSIVE Sum(_, _)
Sum(n, k) ==
    IF k = 0 THEN n
    ELSE IF k > 0 THEN Sum(Succ(n), k - 1)
    ELSE Sum(Pred(n), k + 1)

\* a < b
IntLess(a, b) ==
    IF a.neg # b.neg THEN a.neg
    ELSE IF a.neg THEN MagLess(b.mag, a.mag)
    ELSE MagLess(a.mag, b.mag)

\* x - y for magnitudes x >= y, digit by digit from the right.
RECURSIVE SubDigits(_, _, _)
SubDigits(x, y, borrow) ==
    IF x = <<>> THEN <<>>
    ELSE LET v == x[Len(x)] - (IF y = <<>> THEN 0 ELSE y[Len(y)]) - borrow
         IN SubDigits(SubSeq(x, 1, Len(x) - 1),
                      IF y = <<>> THEN <<>> ELSE SubSeq(y, 1, Len(y) - 1),
                      IF v < 0 THEN 1 ELSE 0) \o <<IF v < 0 THEN v + 10 ELSE v>>

MagSub(x, y) == Strip(SubDigits(x, y, 0))

\* x mod y for magnitudes, by long division.
RECURSIVE Reduce(_, _)
Reduce(x, y) == IF MagLess(x, y) THEN x ELSE Reduce(MagSub(x, y), y)

RECURSIVE ModDigits(_, _, _)
ModDigits(x, y, r) ==
    IF x = <<>> THEN r
    ELSE LET r1 == Strip(r \o <<Head(x)>>)
         IN IF MagLess(r1, y) THEN ModDigits(Tail(x), y, r1)
            ELSE ModDigits(Tail(x), y, Reduce(r1, y))

MagMod(x, y) == ModDigits(x, y, <<0>>)

\* 1<<64
Two64 == <<1, 8, 4, 4, 6, 7, 4, 4, 0, 7, 3, 7, 0, 9, 5, 5, 1, 6, 1, 6>>

\* Whether an int64 holds the integer.
IsInt64(n) ==
    IF n.neg THEN ~MagLess(MinInt64.mag, n.mag) ELSE ~MagLess(MaxInt64.mag, n.mag)

\* The int64 an integer becomes: its low 64 bits, in two's complement.
Wrap64(n) ==
    IF IsInt64(n) THEN n
    ELSE LET m == MagMod(n.mag, Two64)
             u == IF n.neg /\ m # <<0>> THEN MagSub(Two64, m) ELSE m
         IN IF MagLess(u, MinInt64.mag) THEN [neg |-> FALSE, mag |-> u]
            ELSE [neg |-> TRUE, mag |-> MagSub(Two64, u)]

\* strconv.Itoa
Itoa(n) ==
    (IF n.neg THEN <<"-">> ELSE <<>>) \o [i \in 1..Len(n.mag) |-> Digits[n.mag[i] + 1]]

\* strconv's constants digits and smallsString ("000102...99").
DigitsConst == Digits \o Letters
SmallsString ==
    [i \in 1..200 |-> Digits[(IF i % 2 = 1 THEN ((i - 1) \div 2) \div 10
                                         ELSE ((i - 1) \div 2) % 10) + 1]]

\* A string as the program holds it: the data, and where they are: in one
\* of strconv's constants at an offset, or somewhere else ("").
Str(s) == [data |-> s, in |-> "", off |-> 0]

\* The string strconv.Itoa returns: for 0..9 a slice of digits, for 10..99 a
\* slice of smallsString (strconv's small), for any other int a new string.
ItoaString(n) ==
    IF ~n.neg /\ Len(n.mag) = 1
    THEN [data |-> Itoa(n), in |-> "digits", off |-> n.mag[1]]
    ELSE IF ~n.neg /\ Len(n.mag) = 2
    THEN [data |-> Itoa(n), in |-> "smallsString", off |-> 2 * (10 * n.mag[1] + n.mag[2])]
    ELSE Str(Itoa(n))

\* strconv.FormatBool
FormatBool(b) == IF b THEN <<"t", "r", "u", "e">> ELSE <<"f", "a", "l", "s", "e">>

Tail2(s) == SubSeq(s, 3, Len(s))

\* Whether the string starts with a base prefix: 0b, 0o or 0x in either case.
HasPrefix(s, least) == Len(s) >= least /\ s[1] = "0" /\ lower(s[2]) \in {"b", "o", "x"}

\* strconv.underscoreOK, its loop: saw is "0" after a digit (or the base
\* prefix), "_" after an underscore, "!" after any other byte, "^" at the
\* start.  An underscore must follow a digit and be followed by one.
RECURSIVE underscoreScan(_, _, _)
underscoreScan(s, saw, hex) ==
    IF s = <<>> THEN saw # "_"
    ELSE IF IsDigit(Head(s)) \/ (hex /\ DigitOf(Head(s)) \in 10..15)
         THEN underscoreScan(Tail(s), "0", hex)
    ELSE IF Head(s) = "_" THEN saw = "0" /\ underscoreScan(Tail(s), "_", hex)
    ELSE saw # "_" /\ underscoreScan(Tail(s), "!", hex)

\* strconv.underscoreOK: an optional sign, an optional base prefix, the number.
underscoreOK(s0) ==
    LET s == IF Len(s0) >= 1 /\ Head(s0) \in {"-", "+"} THEN Tail(s0) ELSE s0
    IN IF HasPrefix(s, 2) THEN underscoreScan(Tail2(s), "0", lower(s[2]) = "x")
       ELSE underscoreScan(s, "^", FALSE)

\* ParseUint's loop: with base 0 an underscore is skipped and remembered;
\* any other byte that is no digit of the base is a syntax error; a value
\* above 1<<64 - 1 is a range error; otherwise n = n*base + d.
RECURSIVE ParseDigits(_, _, _, _, _)
ParseDigits(s, base, base0, n, underscores) ==
    IF s = <<>> THEN [n |-> n, err |-> "nil", underscores |-> underscores]
    ELSE IF Head(s) = "_" /\ base0 THEN ParseDigits(Tail(s), base, base0, n, TRUE)
    ELSE LET d == DigitOf(Head(s))
             n1 == MulAdd(n, base, d)
         IN IF d < 0 \/ d >= base
            THEN [n |-> <<0>>, err |-> "syntax", underscores |-> underscores]
            ELSE IF MagLess(MaxUint64, n1)
            THEN [n |-> MaxUint64, err |-> "range", underscores |-> underscores]
            ELSE ParseDigits(Tail(s), base, base0, n1, underscores)

\* strconv.ParseUint(s, 0, 0): the base comes from the prefix (0b, 0o, 0x
\* in either case, or a leading 0 for octal); underscores are accepted only
\* where underscoreOK allows them.
ParseUint0(s) ==
    IF s = <<>> THEN [n |-> <<0>>, err |-> "syntax"]
    ELSE LET base == IF Head(s) # "0" THEN 10
                     ELSE IF ~HasPrefix(s, 3) THEN 8
                     ELSE IF lower(s[2]) = "b" THEN 2
                     ELSE IF lower(s[2]) = "o" THEN 8
                     ELSE 16
             digits == IF Head(s) # "0" THEN s
                       ELSE IF HasPrefix(s, 3) THEN Tail2(s)
                       ELSE Tail(s)
             r == ParseDigits(digits, base, TRUE, <<0>>, FALSE)
         IN IF r.err # "nil" THEN [n |-> r.n, err |-> r.err]
            ELSE IF r.underscores /\ ~underscoreOK(s) THEN [n |-> <<0>>, err |-> "syntax"]
            ELSE [n |-> r.n, err |-> "nil"]

\* strconv.ParseInt(s, 0, 0): the sign, ParseUint, and the range of int64.
ParseInt0(s) ==
    IF s = <<>> THEN [n |-> Zero, err |-> "syntax"]
    ELSE LET neg == Head(s) = "-"
             u == ParseUint0(IF Head(s) \in {"+", "-"} THEN Tail(s) ELSE s)
         IN IF u.err = "syntax" THEN [n |-> Zero, err |-> "syntax"]
            ELSE IF ~neg /\ ~MagLess(u.n, MinInt64.mag) THEN [n |-> MaxInt64, err |-> "range"]
            ELSE IF neg /\ MagLess(MinInt64.mag, u.n) THEN [n |-> MinInt64, err |-> "range"]
            ELSE [n |-> [neg |-> neg /\ u.n # <<0>>, mag |-> u.n], err |-> "nil"]

\* cast.ToIntE on a string: the int ParseInt gives, or 0 and an error.
ToIntE(s) ==
    LET r == ParseInt0(s)
    IN IF r.err = "nil" THEN r ELSE [n |-> Zero, err |-> "TypeError"]

\* cast.ToStringE
ToStringE(val) ==
    CASE val.t = "string" -> [s |-> val.s, err |-> "nil"]
      [] val.t = "int" -> [s |-> Itoa(IntOf(val.i)), err |-> "nil"]
      [] val.t = "bool" -> [s |-> FormatBool(val.b), err |-> "nil"]
      [] val.t = "nil" -> [s |-> <<>>, err |-> "nil"]
      [] OTHER -> [s |-> <<>>, err |-> "EncodingError"]

\* The string cast.ToStringE returns, as the program holds it: an int's is
\* strconv.Itoa's.
ToStringPtr(val) ==
    IF val.t = "int" THEN ItoaString(IntOf(val.i)) ELSE Str(ToStringE(val).s)

\* time.Second is 10^NanoDigits nanoseconds.
NanoDigits == 9

\* n * time.Second in the integers, in nanoseconds
Seconds(n) ==
    IF n.mag = <<0>> THEN Zero ELSE [n EXCEPT !.mag = @ \o [i \in 1..NanoDigits |-> 0]]

\* The whole seconds of a Duration, rounded down.  The clock's instants are
\* whole seconds, so t.Add(d) is before one of them exactly when
\* t + FloorSeconds(d) is.
FloorSeconds(d) ==
    LET l == Len(d.mag)
        whole == IF l <= NanoDigits THEN <<0>> ELSE SubSeq(d.mag, 1, l - NanoDigits)
        exact == \A i \in 1..l : i > l - NanoDigits => d.mag[i] = 0
    IN IF ~d.neg THEN [neg |-> FALSE, mag |-> whole]
       ELSE IF exact THEN [neg |-> whole # <<0>>, mag |-> whole]
       ELSE [neg |-> TRUE, mag |-> MulAdd(whole, 1, 1)]

\* time.Duration(expire) * time.Second (line 87), an int64 product that
\* wraps, in whole seconds.  A ttl of at most NanoDigits digits has a
\* product below 1<<63, which is the ttl in seconds.
ExpireSeconds(expire) ==
    IF Len(expire.mag) <= NanoDigits THEN expire
    ELSE FloorSeconds(Wrap64(Seconds(expire)))

---------------------------------------------------------------------------
(* The heap of item objects *)

NoItem == [vptr |-> Str(<<>>), vlen |-> 0, Expired |-> Zero]

Addrs == 1..(NCallers + Cardinality(Keys))

\* The bytes that are known to follow a string's data in memory: the rest
\* of the constant the string is a slice of.
After(p) ==
    IF p.in = "digits" THEN SubSeq(DigitsConst, p.off + Len(p.data) + 1, Len(DigitsConst))
    ELSE IF p.in = "smallsString"
    THEN SubSeq(SmallsString, p.off + Len(p.data) + 1, Len(SmallsString))
    ELSE <<>>

\* What a byte of memory can be: a digit, a letter, a sign, an underscore,
\* or any other byte ("?").
Bytes ==
    {Digits[i] : i \in 1..10} \cup {Letters[i] : i \in 1..26} \cup {Capitals[i] : i \in 1..26}
        \cup {"-", "+", "_", "?"}

\* The string a (data pointer, length) pair denotes; the bytes past the
\* end of the data are those of the constant, and past it not known ("?").
StringOf(p, l) ==
    IF l <= Len(p.data) THEN SubSeq(p.data, 1, l)
    ELSE LET k == l - Len(p.data)
             known == IF k <= Len(After(p)) THEN k ELSE Len(After(p))
         IN p.data \o SubSeq(After(p), 1, known) \o [i \in 1..(k - known) |-> "?"]

\* The strings a read of a (data pointer, length) pair can give: a byte past
\* the end of the data is the constant's, and past it whatever the memory
\* holds there.
StringsOf(p, l) ==
    IF l <= Len(p.data) THEN {SubSeq(p.data, 1, l)}
    ELSE LET k == l - Len(p.data)
             known == IF k <= Len(After(p)) THEN k ELSE Len(After(p))
         IN {p.data \o SubSeq(After(p), 1, known) \o [i \in 1..(k - known) |-> f[i]] :
                f \in [1..(k - known) -> Bytes]}

ItemValue(it) == StringOf(it.vptr, it.vlen)

Live(its, lc) == ({its[k] : k \in DOMAIN its} \cup {lc[t].it : t \in Threads}) \ {0}

\* Objects no reference leads to are collected.
Collect(h, its, lc) == [a \in Addrs |-> IF a \in Live(its, lc) THEN h[a] ELSE NoItem]

NewAddr == CHOOSE a \in Addrs : a \notin Live(items, loc) /\ \A b \in Addrs : b < a => b \in Live(items, loc)

\* sync.Map Store and Delete
MapStore(m, k, v) == [x \in DOMAIN m \cup {k} |-> IF x = k THEN v ELSE m[x]]
MapDelete(m, k) == [x \in DOMAIN m \ {k} |-> m[x]]

NoLoc == [it |-> 0, p |-> Str(<<>>), l |-> 0, first |-> "none", at |-> 0, exp |-> Zero,
          q |-> 0, m |-> 0]
NoRet == [val |-> <<>>, err |-> "none"]
NoCall == [op |-> "none", key |-> <<>>, val |-> NilVal, expire |-> Zero, num |-> 0, dur |-> 0,
           hk |-> <<>>, field |-> <<>>, seen |-> 0, stream |-> "", f |-> "", arg |-> 0]
NoWrite == [op |-> "none", val |-> NilVal, expire |-> Zero, at |-> 0, ev |-> {}, was |-> "none",
            clean |-> FALSE, byset |-> FALSE, during |-> {}]
NoCnt == [valid |-> FALSE, n |-> Zero]

Nil == [val |-> <<>>, err |-> "nil"]
Err(e) == [val |-> <<>>, err |-> e]

---------------------------------------------------------------------------
(* The item store: Get, Set, Del, HashGet, HashDel, Increase, Decrease,   *)
(* Expire.  A call's first action makes the call and takes its first step. *)
(* History, kept in the call: the hash name and the field a hash call was  *)
(* given, and the clock as the call last saw it: when it was made, and     *)
(* then as getItem read it (line 67).                                      *)

Begin(t, c) ==
    /\ pc[t] = "idle"
    /\ ncalls < MaxCalls
    /\ ncalls' = ncalls + 1
    /\ call' = [call EXCEPT ![t] = [c EXCEPT !.seen = now]]

\* The caller returns r; a counter call or Expire releases its read lock.
Return(t, r, unlock) ==
    /\ pc' = [pc EXCEPT ![t] = "idle"]
    /\ ret' = [ret EXCEPT ![t] = r]
    /\ loc' = [loc EXCEPT ![t] = NoLoc]
    /\ readers' = IF unlock THEN readers - 1 ELSE readers

Goto(t, p, l) ==
    /\ pc' = [pc EXCEPT ![t] = p]
    /\ loc' = [loc EXCEPT ![t] = l]
    /\ UNCHANGED ret

Locked(op) == op \in {"Increase", "Decrease", "Expire"}
IsRead(op) == op \in {"Get", "HashGet"}

\* A caller of getItem that reports no error for a missing entry.
AbsentNil(op) == Nil

\* What the caller of getItem returns when getItem returns (nil, nil).
AbsentResult(op) == IF IsRead(op) THEN Nil ELSE Err("NotExist")

\* getItem, line 60: m.items.Load(key); an absent key returns (nil, nil).
getItemLoad(t, c, lock) ==
    /\ Begin(t, c)
    /\ IF c.key \in DOMAIN items
       THEN /\ Goto(t, "check", [NoLoc EXCEPT !.it = items[c.key]])
            /\ readers' = IF lock THEN readers + 1 ELSE readers
       ELSE Return(t, AbsentResult(c.op), FALSE)
    /\ UNCHANGED <<items, heap, now, lastw, cnt, queueVars, runVars>>

Get(t, key) == getItemLoad(t, [NoCall EXCEPT !.op = "Get", !.key = key], FALSE)

\* A HashGet that looks up the hash name alone.
HashGetName(t, hk, key) ==
    getItemLoad(t, [NoCall EXCEPT !.op = "HashGet", !.key = hk, !.hk = hk, !.field = key], FALSE)

\* HashGet, line 107: getItem(hk + key)
HashGet(t, hk, key) ==
    getItemLoad(t, [NoCall EXCEPT !.op = "HashGet", !.key = hk \o key,
                                  !.hk = hk, !.field = key], FALSE)

\* calculate, lines 127-129: RLock, then getItem.
calculate(t, key, num) ==
    getItemLoad(t, [NoCall EXCEPT !.op = IF num > 0 THEN "Increase" ELSE "Decrease",
                                  !.key = key, !.num = num], TRUE)

Increase(t, key) == calculate(t, key, 1)

Decrease(t, key) == calculate(t, key, -1)

\* Expire, lines 149-151
Expire(t, key, dur) ==
    getItemLoad(t, [NoCall EXCEPT !.op = "Expire", !.key = key, !.dur = dur], TRUE)

\* Time.Before: the instant i lies before second t.
Before(i, t) == IntLess(i, IntOf(t))

\* item.Expired.Before(time.Now())
IsExpired(it) == Before(it.Expired, now)

\* getItem, line 67, item.Expired.Before(time.Now()): the call of
\* time.Now() and the load of item.Expired are two steps, and the language
\* fixes no order between them.  Here the clock is read first.
getItemNow(t) ==
    /\ pc[t] = "check"
    /\ Goto(t, "checkexp", [loc[t] EXCEPT !.at = now])
    /\ call' = [call EXCEPT ![t].seen = now]
    /\ UNCHANGED <<items, heap, now, readers, ncalls, lastw, cnt, queueVars, runVars>>

\* getItem, line 67: item.Expired is loaded first.
getItemExpired(t) ==
    /\ pc[t] = "check"
    /\ Goto(t, "checknow", [loc[t] EXCEPT !.exp = heap[loc[t].it].Expired])
    /\ UNCHANGED <<items, heap, now, readers, call, ncalls, lastw, cnt, queueVars, runVars>>

\* getItem, lines 66-77: the arm of the switch the check chooses.
Checked(t, expired) ==
    IF expired THEN "evict"
    ELSE IF call[t].op = "Expire" THEN "setexp" ELSE "read1"

\* getItem, line 67: the second of the two steps, and the comparison: of
\* item.Expired as it is now with the clock as it was read, or of
\* item.Expired as it was loaded with the clock as it is now.
getItemCheck(t) ==
    /\ \/ /\ pc[t] = "checkexp"
          /\ Goto(t, Checked(t, Before(heap[loc[t].it].Expired, loc[t].at)),
                  [loc[t] EXCEPT !.at = 0])
          /\ UNCHANGED call
       \/ /\ pc[t] = "checknow"
          /\ Goto(t, Checked(t, Before(loc[t].exp, now)), [loc[t] EXCEPT !.exp = Zero])
          /\ call' = [call EXCEPT ![t].seen = now]
    /\ UNCHANGED <<items, heap, now, readers, ncalls, lastw, cnt, queueVars, runVars>>

\* A delete that empties the map.
delAll(m, key) == <<>>

\* del, line 102: m.items.Delete(key)
del(m, key) == MapDelete(m, key)

\* getItem, lines 69-71: the expired entry is deleted, getItem returns (nil, nil).
getItemEvict(t) ==
    /\ pc[t] = "evict"
    /\ items' = del(items, call[t].key)
    /\ Return(t, AbsentResult(call[t].op), Locked(call[t].op))
    /\ heap' = Collect(heap, items', loc')
    /\ lastw' = [lastw EXCEPT ![call[t].key] =
                    [@ EXCEPT !.op = "Evict", !.was = lastw[call[t].key].op, !.ev = {}]]
    /\ cnt' = [cnt EXCEPT ![call[t].key] = NoCnt]
    /\ UNCHANGED <<now, call, ncalls, queueVars, runVars>>

\* The first word of item.Value is read (either word may come first).
ReadValue1(t) ==
    /\ pc[t] = "read1"
    /\ \E w \in {"ptr", "len"} :
          Goto(t, "read2", [loc[t] EXCEPT !.first = w,
                                          !.p = IF w = "ptr" THEN heap[loc[t].it].vptr ELSE Str(<<>>),
                                          !.l = IF w = "len" THEN heap[loc[t].it].vlen ELSE 0])
    /\ UNCHANGED <<items, heap, now, readers, call, ncalls, lastw, cnt, queueVars, runVars>>

\* The strings the read of item.Value can give once its second word is in.
ValueRead(t) ==
    IF loc[t].first = "ptr" THEN StringsOf(loc[t].p, heap[loc[t].it].vlen)
    ELSE StringsOf(heap[loc[t].it].vptr, loc[t].l)

\* calculate, lines 143-144: n += num; strconv.Itoa(n)
Added(n, num) == ItoaString(AddInt(n, num))

\* The second word of item.Value is read.  Get and HashGet return the string
\* (lines 55, 111); calculate parses it (line 139) and computes the new value.
\* A read that races with a write of the value gives any of the strings the
\* two words and the memory allow.
ReadValue2(t) ==
    /\ pc[t] = "read2"
    /\ \E s \in ValueRead(t) :
          IF IsRead(call[t].op)
          THEN /\ Return(t, [val |-> s, err |-> "nil"], FALSE)
               /\ heap' = Collect(heap, items, loc')
          ELSE /\ LET r == ToIntE(s)
                  IN IF r.err # "nil"
                     THEN Return(t, Err("TypeError"), TRUE)
                     ELSE /\ Goto(t, "write1", [loc[t] EXCEPT !.first = "none", !.l = 0,
                                                 !.p = Added(r.n, call[t].num)])
                          /\ UNCHANGED readers
               /\ heap' = Collect(heap, items, loc')
    /\ UNCHANGED <<items, now, call, ncalls, lastw, cnt, queueVars, runVars>>

\* calculate, line 144: the first word of item.Value is written.
WriteValue1(t) ==
    /\ pc[t] = "write1"
    /\ \E w \in {"ptr", "len"} :
          /\ heap' = [heap EXCEPT ![loc[t].it] =
                         IF w = "ptr" THEN [@ EXCEPT !.vptr = loc[t].p]
                         ELSE [@ EXCEPT !.vlen = Len(loc[t].p.data)]]
          /\ Goto(t, "write2", [loc[t] EXCEPT !.first = w])
    /\ UNCHANGED <<items, now, readers, call, ncalls, lastw, cnt, queueVars, runVars>>

\* calculate, line 144: the second word of item.Value is written.
WriteValue2(t) ==
    /\ pc[t] = "write2"
    /\ heap' = [heap EXCEPT ![loc[t].it] =
                   IF loc[t].first = "ptr" THEN [@ EXCEPT !.vlen = Len(loc[t].p.data)]
                   ELSE [@ EXCEPT !.vptr = loc[t].p]]
    /\ Goto(t, "store", [loc[t] EXCEPT !.first = "none", !.p = Str(<<>>)])
    /\ UNCHANGED <<items, now, readers, call, ncalls, lastw, cnt, queueVars, runVars>>

\* Expire, line 159, item.Expired = time.Now().Add(dur): the call of
\* time.Now().
ExpireNow(t) ==
    /\ pc[t] = "setexp"
    /\ Goto(t, "setexp2", [loc[t] EXCEPT !.at = now])
    /\ UNCHANGED <<items, heap, now, readers, call, ncalls, lastw, cnt, queueVars, runVars>>

\* An Expire that leaves the expiry as it was.
ExpireKeep(t) ==
    /\ pc[t] = "setexp2"
    /\ Goto(t, "store", loc[t])
    /\ UNCHANGED <<items, heap, now, readers, call, ncalls, lastw, cnt, queueVars, runVars>>

\* Expire, line 159: the store to item.Expired of the clock's reading plus
\* dur.
ExpireSet(t) ==
    /\ pc[t] = "setexp2"
    /\ heap' = [heap EXCEPT ![loc[t].it].Expired = IntOf(loc[t].at + call[t].dur)]
    /\ Goto(t, "store", loc[t])
    /\ UNCHANGED <<items, now, readers, call, ncalls, lastw, cnt, queueVars, runVars>>

\* Set, lines 85-88: the new item
NewItem(s, expire) ==
    [vptr |-> s, vlen |-> Len(s.data), Expired |-> Sum(ExpireSeconds(expire), now)]

\* Set, lines 81-88: the value's string form, or the cast's error; the item.
Set(t, key, val, expire) ==
    /\ Begin(t, [NoCall EXCEPT !.op = "Set", !.key = key, !.val = val, !.expire = expire])
    /\ IF ToStringE(val).err # "nil"
       THEN /\ Return(t, Err(ToStringE(val).err), FALSE)
            /\ UNCHANGED heap
       ELSE /\ Goto(t, "store", [NoLoc EXCEPT !.it = NewAddr, !.at = now])
            /\ heap' = [heap EXCEPT ![NewAddr] = NewItem(ToStringPtr(val), expire)]
            /\ UNCHANGED readers
    /\ UNCHANGED <<items, now, lastw, cnt, queueVars, runVars>>

\* Whether another caller is in a call on the key.
Busy(t, key) == \E u \in Threads \ {t} : pc[u] # "idle" /\ call[u].key = key

\* The callers other than t that are inside a counter call or an Expire on
\* the key.
During(t, key) ==
    {u \in Threads \ {t} : pc[u] # "idle" /\ Locked(call[u].op) /\ call[u].key = key}

\* History: the record of caller t's write.  A Set gives the value, the
\* ttl and the clock as the call read it (line 87); an Expire gives the
\* duration and the clock as it read it (line 159) and keeps the value; a
\* counter call keeps the expiry.
Written(t) ==
    LET k == call[t].key
        old == lastw[k]
        new == [old EXCEPT !.op = call[t].op,
                           !.ev = {u \in Threads : pc[u] = "evict" /\ call[u].key = k},
                           !.was = old.op,
                           !.during = During(t, k)]
    IN CASE call[t].op = "Set" ->
              [new EXCEPT !.val = call[t].val, !.expire = call[t].expire, !.at = loc[t].at,
                          !.clean = TRUE, !.byset = TRUE]
         [] call[t].op = "Expire" ->
              [new EXCEPT !.expire = IntOf(call[t].dur), !.at = loc[t].at, !.byset = FALSE]
         [] OTHER -> [new EXCEPT !.clean = FALSE]

\* History: the record of a delete by caller t.
Deleted(t, key, op) ==
    [NoWrite EXCEPT !.op = op, !.at = now, !.was = lastw[key].op, !.during = During(t, key)]

\* setItem, line 93: m.items.Store(key, item); Set, calculate and Expire return nil.
setItem(t) ==
    /\ pc[t] = "store"
    /\ items' = MapStore(items, call[t].key, loc[t].it)
    /\ lastw' = [lastw EXCEPT ![call[t].key] = Written(t)]
    /\ cnt' = [cnt EXCEPT ![call[t].key] =
                  CASE call[t].op = "Set" ->
                         LET r == ToIntE(ItemValue(heap[loc[t].it]))
                         IN [valid |-> ~Busy(t, call[t].key) /\ r.err = "nil", n |-> r.n]
                    [] call[t].op = "Expire" -> NoCnt
                    [] OTHER -> [@ EXCEPT !.n = Sum(@, call[t].num)]]
    /\ Return(t, Nil, Locked(call[t].op))
    /\ heap' = Collect(heap, items', loc')
    /\ UNCHANGED <<now, call, ncalls, queueVars, runVars>>

\* Del, lines 97-104
Del(t, key) ==
    /\ Begin(t, [NoCall EXCEPT !.op = "Del", !.key = key])
    /\ items' = del(items, key)
    /\ Return(t, Nil, FALSE)
    /\ heap' = Collect(heap, items', loc')
    /\ lastw' = [lastw EXCEPT ![key] = Deleted(t, key, "Del")]
    /\ cnt' = [cnt EXCEPT ![key] = NoCnt]
    /\ UNCHANGED <<now, queueVars, runVars>>

\* HashDel, lines 114-116
HashDel(t, hk, key) ==
    /\ Begin(t, [NoCall EXCEPT !.op = "HashDel", !.key = hk \o key, !.hk = hk, !.field = key])
    /\ items' = del(items, hk \o key)
    /\ Return(t, Nil, FALSE)
    /\ heap' = Collect(heap, items', loc')
    /\ lastw' = [lastw EXCEPT ![hk \o key] = Deleted(t, hk \o key, "HashDel")]
    /\ cnt' = [cnt EXCEPT ![hk \o key] = NoCnt]
    /\ UNCHANGED <<now, queueVars, runVars>>

\* Connect, line 38: m.items = new(sync.Map).  The entries of the map it
\* replaces are out of reach of every later call.
Connect(t) ==
    /\ Begin(t, [NoCall EXCEPT !.op = "Connect"])
    /\ nrun.connect < MaxConnect
    /\ nrun' = [nrun EXCEPT !.connect = @ + 1]
    /\ items' = <<>>
    /\ Goto(t, "connect", NoLoc)
    /\ heap' = Collect(heap, items', loc')
    /\ lastw' = [k \in Keys |-> Deleted(t, k, "Connect")]
    /\ cnt' = [k \in Keys |-> NoCnt]
    /\ UNCHANGED <<now, readers, wg, owed, queueVars>>

\* Connect, lines 39-40: m.queue = new(sync.Map); return nil.  The channels
\* of the map it replaces stay with the goroutines that hold them.
ConnectQueue(t) ==
    /\ pc[t] = "connect"
    /\ queue' = <<>>
    /\ Return(t, Nil, FALSE)
    /\ UNCHANGED <<call, ncalls, storeVars, PoolNum, chans, msgs, senders, disps, log, runVars>>

\* A second passes.
Tick ==
    /\ now < MaxTime
    /\ now' = now + 1
    /\ UNCHANGED <<items, heap, readers, pc, call, loc, ret, ncalls, lastw, cnt, queueVars, runVars>>

Step(t) ==
    \/ getItemNow(t)
    \/ getItemExpired(t)
    \/ getItemCheck(t)
    \/ getItemEvict(t)
    \/ ReadValue1(t)
    \/ ReadValue2(t)
    \/ WriteValue1(t)
    \/ WriteValue2(t)
    \/ ExpireNow(t)
    \/ ExpireSet(t)
    \/ setItem(t)
    \/ ConnectQueue(t)

Invoke(t) ==
    \/ \E k \in Keys : Get(t, k)
    \/ \E h \in HashArgs : HashGet(t, h[1], h[2])
    \/ \E k \in Keys, v \in Vals, e \in Expires : Set(t, k, v, e)
    \/ \E k \in Keys : Del(t, k)
    \/ \E h \in HashArgs : HashDel(t, h[1], h[2])
    \/ \E k \in Keys : Increase(t, k)
    \/ \E k \in Keys : Decrease(t, k)
    \/ \E k \in Keys, d \in Durs : Expire(t, k, d)
    \/ Connect(t)

\* The store after the first Connect, or after one earlier Set at time 0: of
\* "0", or of the largest int.
Preloads == {<<>>,
             <<[key |-> <<"a">>, val |-> StrVal(<<"0">>), expire |-> IntOf(1)]>>,
             <<[key |-> <<"a">>, val |-> StrVal(Itoa(MaxInt64)), expire |-> IntOf(1)]>>}

InitStore(pre) ==
    /\ now = 0
    /\ IF pre = <<>>
       THEN /\ items = <<>>
            /\ heap = [a \in Addrs |-> NoItem]
            /\ lastw = [k \in Keys |-> NoWrite]
            /\ cnt = [k \in Keys |-> NoCnt]
       ELSE /\ items = MapStore(<<>>, pre[1].key, 1)
            /\ heap = [a \in Addrs |-> IF a = 1 THEN NewItem(ToStringPtr(pre[1].val), pre[1].expire)
                                       ELSE NoItem]
            /\ lastw = [k \in Keys |-> IF k = pre[1].key
                                       THEN [NoWrite EXCEPT !.op = "Set", !.val = pre[1].val,
                                                            !.expire = pre[1].expire,
                                                            !.clean = TRUE, !.byset = TRUE]
                                       ELSE NoWrite]
            /\ cnt = [k \in Keys |-> IF k = pre[1].key
                                     THEN [valid |-> TRUE, n |-> ToIntE(ToStringE(pre[1].val).s).n]
                                     ELSE NoCnt]

InitCallers ==
    /\ readers = 0
    /\ pc = [t \in Threads |-> "idle"]
    /\ call = [t \in Threads |-> NoCall]
    /\ loc = [t \in Threads |-> NoLoc]
    /\ ret = [t \in Threads |-> NoRet]
    /\ ncalls = 0

\* Connect, lines 37-41: no stream yet.
InitNoQueue ==
    /\ PoolNum = 0
    /\ queue = <<>>
    /\ chans = <<>>
    /\ msgs = <<>>
    /\ senders = <<>>
    /\ disps = <<>>
    /\ log = <<>>

InitRun ==
    /\ wg = [v |-> 0, w |-> 0, sema |-> 0, panic |-> ""]
    /\ owed = {}
    /\ nrun = [run |-> 0, shutdown |-> 0, connect |-> 0]

Init ==
    /\ InitCallers
    /\ \E pre \in Preloads : InitStore(pre)
    /\ InitNoQueue
    /\ InitRun

\* One caller goroutine making its calls one after the other.
NextSeq ==
    \/ Invoke(1)
    \/ Step(1)
    \/ Tick

SpecSeq == Init /\ [][NextSeq]_vars

\* Several caller goroutines, their steps interleaved.
NextStore ==
    \/ \E t \in Callers : Invoke(t)
    \/ \E t \in Callers : Step(t)
    \/ Tick

SpecStore == Init /\ [][NextStore]_vars

---------------------------------------------------------------------------
(* The queue: Append, Register, and the goroutines they start.  A channel  *)
(* of capacity 0 passes a message only from a sender at its send to a      *)
(* receiver at its receive.                                                *)

CallerID == [src |-> "caller", n |-> 0]

\* uuid.New() in goroutine g: an id no other call of uuid.New() returns.
NewUUID(g) == [src |-> "uuid", n |-> g]

NoSender == [gm |-> 0, gq |-> 0, pc |-> "done"]
NoDisp == [q |-> 0, f |-> "", pc |-> "recv", message |-> 0, calls |-> 0]

AppendsMade == Len(msgs) \div 2
RegistersMade == Len(disps) + Cardinality({t \in Threads : pc[t] \in {"rstore", "rspawn"}})

\* Both registrations of the stream are made, on the channel the registry
\* holds, with handlers that succeed, and no call is in progress.
FanOutReady(stream) ==
    /\ \A t \in Threads : pc[t] = "idle"
    /\ stream \in DOMAIN queue
    /\ Len(disps) = 2
    /\ \A d \in 1..Len(disps) : disps[d].q = queue[stream] /\ disps[d].f = "ok"

\* The caller's message object, and Append's copy of it (lines 166-169).
CallerMessage(t, stream, id) ==
    [ID |-> id, Stream |-> stream, copy |-> FALSE, by |-> t, fan |-> FanOutReady(stream)]
MemoryMessage(t, stream, id) ==
    [ID |-> id, Stream |-> stream, copy |-> TRUE, by |-> t, fan |-> FanOutReady(stream)]

\* makeQueue, lines 43-48: make(queue) or make(queue, PoolNum)
makeQueue == Append(chans, <<>>)

\* Whether a send on channel c completes at once into its buffer.
HasRoom(c) == PoolNum > 0 /\ Len(chans[c]) < PoolNum

\* The dispatchers at their receive on channel c, other than dispatcher x.
Receivers(c, x) ==
    {d \in 1..Len(disps) : d # x /\ disps[d].pc = "recv" /\ disps[d].q = c}

\* c <- m by a goroutine that is not a dispatcher (x = 0) or is dispatcher
\* x: into the buffer, or handed to a receiver.
Send(c, m, x) ==
    IF PoolNum > 0
    THEN /\ HasRoom(c)
         /\ chans' = [chans EXCEPT ![c] = Append(@, m)]
         /\ disps' = IF x = 0 THEN disps
                     ELSE [disps EXCEPT ![x] = [@ EXCEPT !.pc = "recv", !.message = 0]]
    ELSE /\ \E d \in Receivers(c, x) :
              disps' = [e \in 1..Len(disps) |->
                          IF e = d THEN [disps[e] EXCEPT !.pc = "handle", !.message = m]
                          ELSE IF e = x THEN [disps[e] EXCEPT !.pc = "recv", !.message = 0]
                          ELSE disps[e]]
         /\ UNCHANGED chans

\* Append, lines 164-170: RLock, the copy, m.queue.Load(stream).
AppendLoad(t, stream, id) ==
    /\ pc[t] = "idle"
    /\ AppendsMade < MaxAppend
    /\ call' = [call EXCEPT ![t] = [NoCall EXCEPT !.op = "Append", !.stream = stream,
                                                  !.arg = Len(msgs) + 1]]
    /\ msgs' = msgs \o <<CallerMessage(t, stream, id), MemoryMessage(t, stream, id)>>
    /\ readers' = readers + 1
    /\ IF stream \in DOMAIN queue
       THEN Goto(t, "aspawn", [NoLoc EXCEPT !.q = queue[stream], !.m = Len(msgs) + 2])
       ELSE Goto(t, "astore", [NoLoc EXCEPT !.m = Len(msgs) + 2])
    /\ UNCHANGED <<ncalls, storeVars, PoolNum, queue, chans, senders, disps, log, runVars>>

\* Append, lines 171-174: no channel was loaded; one is made and stored.
AppendStore(t) ==
    /\ pc[t] = "astore"
    /\ chans' = makeQueue
    /\ queue' = MapStore(queue, call[t].stream, Len(chans) + 1)
    /\ Goto(t, "aspawn", [loc[t] EXCEPT !.q = Len(chans) + 1])
    /\ UNCHANGED <<readers, call, ncalls, storeVars, PoolNum, msgs, senders, disps, log, runVars>>

\* An Append that sends on the channel itself, before it returns.
AppendSend(t) ==
    /\ pc[t] = "aspawn"
    /\ msgs' = [msgs EXCEPT ![loc[t].m].ID = NewUUID(Len(senders) + 1)]
    /\ Send(loc[t].q, loc[t].m, 0)
    /\ senders' = Append(senders, [gm |-> loc[t].m, gq |-> loc[t].q, pc |-> "done"])
    /\ Return(t, Nil, TRUE)
    /\ UNCHANGED <<call, ncalls, storeVars, PoolNum, queue, log, runVars>>

\* Append, lines 183-187: the goroutine is started, Append returns nil.
AppendSpawn(t) ==
    /\ pc[t] = "aspawn"
    /\ senders' = Append(senders, [gm |-> loc[t].m, gq |-> loc[t].q, pc |-> "setid"])
    /\ Return(t, Nil, TRUE)
    /\ UNCHANGED <<call, ncalls, storeVars, PoolNum, queue, chans, msgs, disps, log, runVars>>

\* A goroutine that sends the copy with the id the caller gave it.
SenderKeepID(g) ==
    /\ senders[g].pc = "setid"
    /\ senders' = [senders EXCEPT ![g].pc = "send"]
    /\ UNCHANGED <<readers, pc, call, loc, ret, ncalls, storeVars, PoolNum, queue, chans, msgs, disps, log, runVars>>

\* Line 184, in the goroutine: gm.SetID(uuid.New().String())
SenderSetID(g) ==
    /\ senders[g].pc = "setid"
    /\ msgs' = [msgs EXCEPT ![senders[g].gm].ID = NewUUID(g)]
    /\ senders' = [senders EXCEPT ![g].pc = "send"]
    /\ UNCHANGED <<readers, pc, call, loc, ret, ncalls, storeVars, PoolNum, queue, chans, disps, log, runVars>>

\* Line 185, in the goroutine: gq <- gm
SenderSend(g) ==
    /\ senders[g].pc = "send"
    /\ Send(senders[g].gq, senders[g].gm, 0)
    /\ senders' = [senders EXCEPT ![g].pc = "done"]
    /\ UNCHANGED <<readers, pc, call, loc, ret, ncalls, storeVars, PoolNum, queue, msgs, log, runVars>>

\* Register, lines 191-193: RLock, m.queue.Load(name).
RegisterLoad(t, name, f) ==
    /\ pc[t] = "idle"
    /\ RegistersMade < MaxRegister
    /\ call' = [call EXCEPT ![t] = [NoCall EXCEPT !.op = "Register", !.stream = name, !.f = f]]
    /\ readers' = readers + 1
    /\ IF name \in DOMAIN queue
       THEN Goto(t, "rspawn", [NoLoc EXCEPT !.q = queue[name]])
       ELSE Goto(t, "rstore", NoLoc)
    /\ UNCHANGED <<ncalls, storeVars, queueVars, runVars>>

\* Register, lines 194-197: no channel was loaded; one is made and stored.
RegisterStore(t) ==
    /\ pc[t] = "rstore"
    /\ chans' = makeQueue
    /\ queue' = MapStore(queue, call[t].stream, Len(chans) + 1)
    /\ Goto(t, "rspawn", [loc[t] EXCEPT !.q = Len(chans) + 1])
    /\ UNCHANGED <<readers, call, ncalls, storeVars, PoolNum, msgs, senders, disps, log, runVars>>

\* Register, lines 206-216: the dispatcher is started, Register returns.
RegisterSpawn(t) ==
    /\ pc[t] = "rspawn"
    /\ disps' = Append(disps, [NoDisp EXCEPT !.q = loc[t].q, !.f = call[t].f])
    /\ Return(t, Nil, TRUE)
    /\ UNCHANGED <<call, ncalls, storeVars, PoolNum, queue, chans, msgs, senders, log, runVars>>

\* A receive that leaves the message in the channel for the next receiver
\* (a broadcast).
DispRecvPeek(d) ==
    /\ disps[d].pc = "recv"
    /\ PoolNum > 0
    /\ chans[disps[d].q] # <<>>
    /\ disps[d].calls = 0
    /\ disps' = [disps EXCEPT ![d] = [@ EXCEPT !.pc = "handle", !.message = Head(chans[disps[d].q])]]
    /\ UNCHANGED <<readers, pc, call, loc, ret, ncalls, storeVars, PoolNum, queue, chans, msgs, senders, log, runVars>>

\* Line 208, for message := range q: a buffered message is received.
DispRecv(d) ==
    /\ disps[d].pc = "recv"
    /\ PoolNum > 0
    /\ chans[disps[d].q] # <<>>
    /\ disps' = [disps EXCEPT ![d] = [@ EXCEPT !.pc = "handle", !.message = Head(chans[disps[d].q])]]
    /\ chans' = [chans EXCEPT ![disps[d].q] = Tail(@)]
    /\ UNCHANGED <<readers, pc, call, loc, ret, ncalls, storeVars, PoolNum, queue, msgs, senders, log, runVars>>

\* What the handler returns: "failOnce" fails its first invocation only.
HandlerFails(d) ==
    \/ disps[d].f = "failOnce" /\ disps[d].calls = 0
    \/ disps[d].f = "failAlways"

\* Lines 209-213: err = gf(message); a failed message goes to the send.
DispHandle(d) ==
    /\ disps[d].pc = "handle"
    /\ disps[d].f = "failAlways" => Len(log) < MaxDeliver
    /\ log' = Append(log, [m |-> disps[d].message, id |-> msgs[disps[d].message].ID,
                           d |-> d, ok |-> ~HandlerFails(d)])
    /\ disps' = [disps EXCEPT ![d] =
                    IF HandlerFails(d) THEN [@ EXCEPT !.pc = "resend", !.calls = 1]
                    ELSE [@ EXCEPT !.pc = "recv", !.message = 0, !.calls = 1]]
    /\ UNCHANGED <<readers, pc, call, loc, ret, ncalls, storeVars, PoolNum, queue, chans, msgs, senders, runVars>>

\* Line 211: out <- message
DispResend(d) ==
    /\ disps[d].pc = "resend"
    /\ Send(disps[d].q, disps[d].message, d)
    /\ UNCHANGED <<readers, pc, call, loc, ret, ncalls, storeVars, PoolNum, queue, msgs, senders, log, runVars>>

CallerStep(t) ==
    \/ AppendStore(t)
    \/ AppendSpawn(t)
    \/ RegisterStore(t)
    \/ RegisterSpawn(t)
    \/ ConnectQueue(t)

SenderStep(g) ==
    \/ SenderSetID(g)
    \/ SenderSend(g)

DispStep(d) ==
    \/ DispRecv(d)
    \/ DispHandle(d)
    \/ DispResend(d)

\* A step of the program, as opposed to a new call from outside.
QueueProgress ==
    \/ CallerStep(1)
    \/ \E g \in 1..Len(senders) : SenderStep(g)
    \/ \E d \in 1..Len(disps) : DispStep(d)

\* One caller goroutine makes the calls; the goroutines they start run
\* beside it.
NextQueue ==
    \/ \E s \in Streams : AppendLoad(1, s, CallerID)
    \/ \E s \in Streams, f \in Handlers : RegisterLoad(1, s, f)
    \/ Connect(1)
    \/ QueueProgress

InitQueue ==
    /\ InitCallers
    /\ InitStore(<<>>)
    /\ InitRun
    /\ PoolNum \in PoolNums
    /\ queue = <<>>
    /\ chans = <<>>
    /\ msgs = <<>>
    /\ senders = <<>>
    /\ disps = <<>>
    /\ log = <<>>

SpecQueue == InitQueue /\ [][NextQueue]_vars

\* Several caller goroutines append and register at once.
RaceProgress ==
    \/ \E t \in Callers : CallerStep(t)
    \/ \E g \in 1..Len(senders) : SenderStep(g)
    \/ \E d \in 1..Len(disps) : DispStep(d)

NextRace ==
    \/ \E t \in Callers, s \in Streams : AppendLoad(t, s, CallerID)
    \/ \E t \in Callers, s \in Streams, f \in Handlers : RegisterLoad(t, s, f)
    \/ \E t \in Callers : Connect(t)
    \/ RaceProgress

SpecRace == InitQueue /\ [][NextRace]_vars

\* The same, with handlers that fail on every invocation.
NextRetry ==
    \/ \E s \in Streams : AppendLoad(1, s, CallerID)
    \/ \E s \in Streams, f \in RetryHandlers : RegisterLoad(1, s, f)
    \/ Connect(1)
    \/ QueueProgress

SpecRetry == InitQueue /\ [][NextRetry]_vars

\* The Go scheduler runs every goroutine that can take a step.
FairSpecQueue ==
    /\ SpecQueue
    /\ WF_vars(CallerStep(1))
    /\ \A g \in 1..MaxAppend : WF_vars(g <= Len(senders) /\ SenderStep(g))
    /\ \A d \in 1..MaxRegister : WF_vars(d <= Len(disps) /\ DispStep(d))

---------------------------------------------------------------------------
(* Run and Shutdown on Memory.wait, a sync.WaitGroup: a counter v, a count *)
(* of waiters w and the semaphore the waiters sleep on.  A panic ends the  *)
(* process.                                                                *)

\* The call is made.
BeginRun(t, op) ==
    /\ pc[t] = "idle"
    /\ wg.panic = ""
    /\ call' = [call EXCEPT ![t] = [NoCall EXCEPT !.op = op]]

\* Run, line 224: m.wait.Add(1).  WaitGroup.Add panics when the counter
\* leaves 0 while waiters of the previous round are still counted.
Run(t) ==
    /\ BeginRun(t, "Run")
    /\ nrun.run < MaxRun
    /\ nrun' = [nrun EXCEPT !.run = @ + 1]
    /\ owed' = owed \ {t}
    /\ IF wg.w # 0 /\ wg.v + 1 = 1
       THEN /\ wg' = [wg EXCEPT !.v = @ + 1, !.panic = "misuse: Add called concurrently with Wait"]
            /\ UNCHANGED <<pc, loc, ret>>
       ELSE /\ wg' = [wg EXCEPT !.v = @ + 1]
            /\ Goto(t, "wait", NoLoc)
    /\ UNCHANGED <<readers, ncalls, storeVars, queueVars>>

\* Run, line 225: m.wait.Wait() returns at once on a zero counter, and
\* otherwise counts the caller as a waiter and puts it to sleep.
RunWait(t) ==
    /\ pc[t] = "wait"
    /\ wg.panic = ""
    /\ IF wg.v = 0
       THEN /\ Return(t, Nil, FALSE)
            /\ UNCHANGED wg
       ELSE /\ wg' = [wg EXCEPT !.w = @ + 1]
            /\ Goto(t, "parked", NoLoc)
            /\ UNCHANGED readers
    /\ UNCHANGED <<call, ncalls, storeVars, queueVars, owed, nrun>>

\* A sleeping waiter is woken; Wait panics if the WaitGroup is in use again.
RunWake(t) ==
    /\ pc[t] = "parked"
    /\ wg.panic = ""
    /\ wg.sema > 0
    /\ IF wg.v # 0 \/ wg.w # 0
       THEN /\ wg' = [wg EXCEPT !.sema = @ - 1,
                                !.panic = "WaitGroup is reused before previous Wait has returned"]
            /\ UNCHANGED <<pc, loc, ret, readers>>
       ELSE /\ wg' = [wg EXCEPT !.sema = @ - 1]
            /\ Return(t, Nil, FALSE)
    /\ UNCHANGED <<call, ncalls, storeVars, queueVars, owed, nrun>>

\* Shutdown, line 229: m.wait.Done(), that is Add(-1): a negative counter
\* panics; a counter that reaches 0 with waiters goes on to release them.
Shutdown(t) ==
    /\ BeginRun(t, "Shutdown")
    /\ nrun.shutdown < MaxShutdown
    /\ nrun' = [nrun EXCEPT !.shutdown = @ + 1]
    /\ owed' = owed \cup {u \in Threads : pc[u] \in {"wait", "parked"}}
    /\ IF wg.v - 1 < 0
       THEN /\ wg' = [wg EXCEPT !.v = @ - 1, !.panic = "negative WaitGroup counter"]
            /\ UNCHANGED <<pc, loc, ret>>
       ELSE /\ wg' = [wg EXCEPT !.v = @ - 1]
            /\ IF wg.v - 1 > 0 \/ wg.w = 0
               THEN /\ pc' = [pc EXCEPT ![t] = "idle"]
                    /\ ret' = [ret EXCEPT ![t] = Nil]
                    /\ UNCHANGED loc
               ELSE Goto(t, "release", [NoLoc EXCEPT !.l = wg.w])
    /\ UNCHANGED <<readers, ncalls, storeVars, queueVars>>

\* WaitGroup.Add, after the counter reached 0: the waiters are released,
\* unless the state changed meanwhile.
ShutdownRelease(t) ==
    /\ pc[t] = "release"
    /\ wg.panic = ""
    /\ IF wg.v # 0 \/ wg.w # loc[t].l
       THEN /\ wg' = [wg EXCEPT !.panic = "misuse: Add called concurrently with Wait"]
            /\ UNCHANGED <<pc, loc, ret, readers>>
       ELSE /\ wg' = [wg EXCEPT !.w = 0, !.sema = @ + loc[t].l]
            /\ Return(t, Nil, FALSE)
    /\ UNCHANGED <<call, ncalls, storeVars, queueVars, owed, nrun>>

\* A step of the program, as opposed to a new call from outside.
RunProgress ==
    \E t \in Threads :
        \/ RunWait(t)
        \/ RunWake(t)
        \/ ShutdownRelease(t)

NextRun ==
    \/ \E t \in Threads : Run(t)
    \/ \E t \in Threads : Shutdown(t)
    \/ RunProgress

InitRunOnly ==
    /\ InitCallers
    /\ InitStore(<<>>)
    /\ InitNoQueue
    /\ InitRun

SpecRun == InitRunOnly /\ [][NextRun]_vars

\* The queue beside Run and Shutdown: caller 1 appends and registers, the
\* other callers run and shut down.
NextLife ==
    \/ NextQueue
    \/ \E t \in Threads \ {1} : Run(t)
    \/ \E t \in Threads \ {1} : Shutdown(t)
    \/ RunProgress

SpecLife == InitQueue /\ [][NextLife]_vars

\* close(c): no statement of the program closes a channel.
Closed(c) == FALSE

\* The dispatcher's loop (for message := range q, line 208) has ended: it is
\* at its receive on a closed channel with nothing left in it.
Terminated(d) ==
    /\ disps[d].pc = "recv"
    /\ Closed(disps[d].q)
    /\ chans[disps[d].q] = <<>>

Spec == SpecSeq

---------------------------------------------------------------------------
(* Claims *)

AllIdle == \A t \in Threads : pc[t] = "idle"

\* n > 0
Positive(n) == ~n.neg /\ n.mag # <<0>>

\* The expiry instant a write asks for: the clock as the Set or the Expire
\* read it, plus the ttl or the duration, in the integers.
Instant(w) == Sum(w.expire, w.at)

\* C1: concurrent Increase/Decrease calls on a key never lose an update: once
\* every call has returned, a key that was Set to an integer and has since
\* seen only counter calls holds that integer plus the calls' sum (N after
\* N Increase calls on "0"), the sum being one an int holds.
C1_NoLostUpdate ==
    \A k \in Keys :
        (AllIdle /\ cnt[k].valid /\ IsInt64(cnt[k].n) /\ k \in DOMAIN items)
            => ToIntE(ItemValue(heap[items[k]])) = [n |-> cnt[k].n, err |-> "nil"]

\* C2: the delete of a read-triggered eviction (Get, HashGet) leaves in place
\* an unexpired entry that a Set with ttl > 0 stored after the eviction's
\* expiry check and before its delete.
C2_EvictionKeepsSet ==
    [][\A t \in Callers :
          (/\ pc[t] = "evict"
           /\ pc'[t] = "idle"
           /\ IsRead(call[t].op)
           /\ call[t].key \in DOMAIN items
           /\ lastw[call[t].key].op = "Set"
           /\ t \in lastw[call[t].key].ev
           /\ ~IsExpired(heap[items[call[t].key]])
           /\ Positive(lastw[call[t].key].expire))
              => (/\ call[t].key \in DOMAIN items'
                  /\ items'[call[t].key] = items[call[t].key])]_vars

\* The messages Append made (the copies), and the deliveries of one.
Copies == {a \in 1..Len(msgs) : msgs[a].copy}
Deliveries(m) == {i \in 1..Len(log) : log[i].m = m}
Count(m) == Cardinality(Deliveries(m))

\* The message is in no channel and no goroutine holds it.
Discarded(m) ==
    /\ \A c \in 1..Len(chans) : \A i \in 1..Len(chans[c]) : chans[c][i] # m
    /\ \A d \in 1..Len(disps) : disps[d].message # m
    /\ \A g \in 1..Len(senders) : senders[g].gm = m => senders[g].pc = "done"
    /\ \A t \in Threads : pc[t] \in {"astore", "aspawn"} => loc[t].m # m

\* No goroutine of the queue can take a step.
QueueQuiet == ~ENABLED QueueProgress

\* C3: with one handler registered, a message whose first delivery failed
\* is delivered exactly twice (failed, then succeeded) and then discarded.
C3_AtLeastOnce ==
    \A m \in Copies :
        (/\ RegistersMade = 1
         /\ Len(disps) = 1
         /\ \E i \in Deliveries(m) : ~log[i].ok)
            => /\ Count(m) <= 2
               /\ QueueQuiet => (Count(m) = 2 /\ Discarded(m))

AllHandlersOk == \A d \in 1..Len(disps) : disps[d].f = "ok"

\* Append call i was made with the stream's two registrations in place.
Fan(i) == 2 * i <= Len(msgs) /\ msgs[2 * i].fan

\* C4: with handlers that always succeed no message is delivered twice, and
\* a message appended to a stream registered twice is delivered to one of
\* the two handlers: while the two registrations are the stream's only ones,
\* the state where every such message has been delivered keeps recurring.
C4_FanOut ==
    /\ [](AllHandlersOk => \A m \in Copies : Count(m) <= 1)
    /\ []<>(\A i \in 1..MaxAppend :
              (Fan(i) /\ RegistersMade = 2)
                  => \E j \in Deliveries(2 * i) : log[j].d \in {1, 2})

C4_Witness ==
    \E i \in 1..MaxAppend :
        /\ Fan(i)
        /\ RegistersMade = 2
        /\ Count(2 * i) = 1
        /\ PoolNum = 0

\* C5: a caller inside Append can always take its next step: it never waits
\* for a receiver.
C5_AppendNeverStalls ==
    pc[1] \in {"astore", "aspawn"} => ENABLED CallerStep(1)

\* Append has returned while its goroutine is suspended on the send to a
\* bounded channel whose buffer is full.
C5_Witness ==
    /\ pc[1] = "idle"
    /\ call[1].op = "Append"
    /\ ret[1] = Nil
    /\ \E g \in 1..Len(senders) : senders[g].pc = "send" /\ ~ENABLED SenderSend(g)
    /\ PoolNum > 0
    /\ \E c \in 1..Len(chans) : Len(chans[c]) = PoolNum

\* C6: the messages of one producer's sequential Append calls are enqueued
\* in call order, and a single always-succeeding dispatcher receives them
\* in that order.
C6_SingleProducerOrder ==
    /\ \A g, h \in 1..Len(senders) :
          (g < h /\ senders[h].pc = "done") => senders[g].pc = "done"
    /\ (Len(disps) = 1 /\ AllHandlersOk)
          => \A i, j \in 1..Len(log) : i < j => log[i].m <= log[j].m

\* C7: every delivery carries the id Append's goroutine generated, never the
\* caller's; two deliveries carry the same id exactly when they deliver the
\* same Append call's message; the caller's message keeps its id.
C7_DeliveryIds ==
    /\ \A i \in 1..Len(log) :
          /\ log[i].id # CallerID
          /\ log[i].id.src = "uuid"
    /\ \A i, j \in 1..Len(log) : (log[i].id = log[j].id) <=> (log[i].m = log[j].m)
    /\ \A a \in 1..Len(msgs) : ~msgs[a].copy => msgs[a].ID = CallerID

\* A message was delivered twice and another message once.
C7_Witness ==
    \E i, j, k \in 1..Len(log) :
        /\ i < j
        /\ log[i].m = log[j].m
        /\ ~log[i].ok
        /\ log[k].m # log[i].m

\* No goroutine of Run/Shutdown can take a step.
RunQuiet == ~ENABLED RunProgress

RunReturned(t) == pc[t] = "idle" /\ call[t].op = "Run" /\ ret[t] = Nil

\* C8: Run does not return before Shutdown was invoked, and every Run call
\* in progress when Shutdown is invoked returns.
C8_RunUntilShutdown ==
    wg.panic = ""
        => /\ \A t \in Threads : RunReturned(t) => t \in owed
           /\ RunQuiet => \A t \in owed : pc[t] = "idle"

\* The step completes a Get call of caller t.
GetReturns(t) ==
    /\ call'[t].op = "Get"
    /\ pc'[t] = "idle"
    /\ pc[t] # "idle" \/ ncalls' = ncalls + 1

Absent(k) == k \notin DOMAIN items \/ IsExpired(heap[items[k]])

\* C9: Get on an absent or expired key fails with NotFound and leaves the
\* key absent.
C9_GetNotFound ==
    [][(GetReturns(1) /\ Absent(call'[1].key))
          => (ret'[1].err = "NotFound" /\ call'[1].key \notin DOMAIN items')]_vars

\* The last call that wrote the key was a Set (a read may have evicted the
\* entry since).
LastSet(k) ==
    \/ lastw[k].op = "Set"
    \/ lastw[k].op = "Evict" /\ lastw[k].was = "Set"

\* C10: for every ttl t > 0, a Get that follows Set(k, v, t) with no write
\* to k in between, and that looks at the clock no later than the expiry
\* instant (the Set's reading of the clock plus t), returns the string form
\* of v and no error.
C10_SetThenGet ==
    (/\ pc[1] = "idle"
     /\ call[1].op = "Get"
     /\ LastSet(call[1].key)
     /\ Positive(lastw[call[1].key].expire)
     /\ ~Before(Instant(lastw[call[1].key]), call[1].seen))
        => ret[1] = [val |-> ToStringE(lastw[call[1].key].val).s, err |-> "nil"]

\* The step is caller t making a call of op.
Calls(t, op) == pc[t] = "idle" /\ ncalls' = ncalls + 1 /\ call'[t].op = op

\* The entries of the keys other than k are as they were.
OthersKept(k) ==
    \A j \in DOMAIN items \ {k} :
        j \in DOMAIN items' /\ heap'[items'[j]] = heap[items[j]]

\* C11: Del(k) returns no error and leaves k absent; on an absent key it
\* leaves the store as it was (so a second Del changes nothing); the entries
\* of the other keys are not affected.
C11_DelIdempotent ==
    [][Calls(1, "Del")
          => /\ pc'[1] = "idle"
             /\ ret'[1] = Nil
             /\ call'[1].key \notin DOMAIN items'
             /\ DOMAIN items' = DOMAIN items \ {call'[1].key}
             /\ call'[1].key \notin DOMAIN items => (items' = items /\ heap' = heap)
             /\ OthersKept(call'[1].key)]_vars

\* Del("a") was applied twice.
C11_Witness ==
    /\ pc[1] = "idle"
    /\ call[1].op = "Del"
    /\ call[1].key = <<"a">>
    /\ ret[1] = Nil
    /\ lastw[<<"a">>].op = "Del"
    /\ lastw[<<"a">>].was = "Del"
    /\ items = <<>>

\* The step completes a call of caller t, of one of ops.
Returns(t, ops) ==
    /\ call'[t].op \in ops
    /\ pc'[t] = "idle"
    /\ pc[t] # "idle" \/ ncalls' = ncalls + 1

\* At a step that completes a call of caller 1: the key had no entry, or
\* one that had expired, when the call looked: at the clock as getItem read
\* it (line 67), which is not the clock at the return.
AbsentAtLook(k) ==
    k \notin DOMAIN items \/ Before(heap[items[k]].Expired, call'[1].seen)

\* The key held an unexpired entry whose value is not an integer.
NotInteger(k) ==
    /\ ~AbsentAtLook(k)
    /\ ToIntE(ItemValue(heap[items[k]])).err # "nil"

\* C12: Increase and Decrease fail with NotExist on a key that is absent or
\* expired when the call looks, which is absent afterwards, and with
\* TypeError on a value that is not an integer, which is left as stored;
\* the clock may move during the call.
C12_CounterErrors ==
    [][Returns(1, {"Increase", "Decrease"})
          => /\ AbsentAtLook(call'[1].key)
                    => (ret'[1].err = "NotExist" /\ call'[1].key \notin DOMAIN items')
             /\ NotInteger(call'[1].key)
                    => /\ ret'[1].err = "TypeError"
                       /\ items' = items
                       /\ heap'[items'[call'[1].key]] = heap[items[call'[1].key]]]_vars

\* Increase("a") failed on the stored value "true", which is still there;
\* the entry was live when the call looked and had expired when it returned.
C12_Witness ==
    /\ pc[1] = "idle"
    /\ call[1].op = "Increase"
    /\ call[1].key = <<"a">>
    /\ ret[1].err = "TypeError"
    /\ <<"a">> \in DOMAIN items
    /\ ItemValue(heap[items[<<"a">>]]) = <<"t", "r", "u", "e">>
    /\ ~Before(heap[items[<<"a">>]].Expired, call[1].seen)
    /\ IsExpired(heap[items[<<"a">>]])

\* Expire's outcome, at the step that completes it: an error and no entry
\* when the key was absent or expired when the call looked; otherwise the
\* entry expires d after a reading of the clock made during the call (line
\* 159) and holds the value it held.
ExpireOutcome(k) ==
    IF AbsentAtLook(k)
    THEN ret'[1].err # "nil" /\ k \notin DOMAIN items'
    ELSE /\ ret'[1] = Nil
         /\ k \in DOMAIN items'
         /\ heap'[items'[k]].Expired = IntOf(loc[1].at + call'[1].dur)
         /\ call[1].seen <= loc[1].at /\ loc[1].at <= now
         /\ lastw[k].clean => ItemValue(heap'[items'[k]]) = ToStringE(lastw[k].val).s

\* Get's outcome after an Expire of an entry that still holds the value of
\* its Set: that value when the Get looks no later than the new expiry
\* instant, nothing after it.
GetAfterExpire(k) ==
    IF ~Before(Instant(lastw[k]), call'[1].seen)
    THEN ret'[1] = [val |-> ToStringE(lastw[k].val).s, err |-> "nil"]
    ELSE ret'[1] = Nil /\ k \notin DOMAIN items'

\* C13: Expire(k, d) fails and creates no entry when k is absent or expired
\* when it looks; otherwise it sets the expiry to now + d, now being the
\* clock as the call reads it, and keeps the value: a Get that looks no
\* later than the new expiry returns the value, a Get that looks after it
\* finds the key absent.  The clock may move during either call.
C13_ExpireFrame ==
    [][/\ Returns(1, {"Expire"}) => ExpireOutcome(call'[1].key)
       /\ (/\ Returns(1, {"Get"})
           /\ lastw[call'[1].key].op = "Expire"
           /\ lastw[call'[1].key].clean) => GetAfterExpire(call'[1].key)]_vars

\* Expire("a", 1) looked at second 0 and read second 1 for the new expiry,
\* which moved from 1 to 2; Get("a") looked at second 2 and returned the
\* value.
C13_Witness ==
    /\ pc[1] = "idle"
    /\ call[1].op = "Get"
    /\ call[1].key = <<"a">>
    /\ call[1].seen = 2
    /\ lastw[<<"a">>].op = "Expire"
    /\ lastw[<<"a">>].at = 1
    /\ <<"a">> \in DOMAIN items
    /\ heap[items[<<"a">>]].Expired = IntOf(2)
    /\ ret[1] = [val |-> <<"0">>, err |-> "nil"]

\* The key was Set to an integer, with a ttl whose Duration an int64 holds,
\* and has since seen only successful counter calls: cnt[k].n is that
\* integer plus the Increase calls minus the Decrease calls, and the expiry
\* is still the Set's.
Counted(k) == cnt[k].valid /\ lastw[k].byset /\ IsInt64(Seconds(lastw[k].expire))

\* C14: after a Set to the string form of n and any sequence of successful
\* Increase and Decrease calls by one caller, the entry holds the decimal
\* string of n + i - d with the expiry instant the Set gave it, and a Get
\* before that instant returns that string.
C14_CounterArithmetic ==
    /\ \A k \in Keys :
          (pc[1] = "idle" /\ Counted(k) /\ k \in DOMAIN items)
              => /\ ItemValue(heap[items[k]]) = Itoa(cnt[k].n)
                 /\ heap[items[k]].Expired = Instant(lastw[k])
    /\ (/\ pc[1] = "idle"
        /\ call[1].op = "Get"
        /\ Counted(call[1].key)
        /\ ~Before(Instant(lastw[call[1].key]), now))
           => ret[1] = [val |-> Itoa(cnt[call[1].key].n), err |-> "nil"]

\* What a read of key k returns and does, at the step that completes it:
\* nothing, the key being absent afterwards, when k was absent or expired
\* when the call looked; otherwise the value of k's entry.
ReadOutcome(k) ==
    IF AbsentAtLook(k)
    THEN ret'[1] = Nil /\ k \notin DOMAIN items'
    ELSE ret'[1] = [val |-> ItemValue(heap[items[k]]), err |-> "nil"] /\ items' = items

\* What a delete of key k returns and does.
DelOutcome(k) ==
    /\ pc'[1] = "idle"
    /\ ret'[1] = Nil
    /\ items' = MapDelete(items, k)
    /\ OthersKept(k)

\* C15: HashGet(h, f) returns what Get(h+f) returns, and does what it does,
\* from the same store and the same reading of the clock, and HashDel(h, f)
\* returns and does what Del(h+f) does, h and f being the arguments the
\* call was given.
C15_HashAlias ==
    [][/\ Returns(1, {"Get"}) => ReadOutcome(call'[1].key)
       /\ Returns(1, {"HashGet"}) => ReadOutcome(call'[1].hk \o call'[1].field)
       /\ Calls(1, "Del") => DelOutcome(call'[1].key)
       /\ Calls(1, "HashDel") => DelOutcome(call'[1].hk \o call'[1].field)]_vars

\* Set("ab", 10, t), then HashGet("a", "b") (or HashGet("ab", "")) returned
\* "10".
C15_Witness ==
    /\ pc[1] = "idle"
    /\ call[1].op = "HashGet"
    /\ call[1].hk = <<"a">>
    /\ call[1].field = <<"b">>
    /\ lastw[<<"a", "b">>].op = "Set"
    /\ ret[1] = [val |-> <<"1", "0">>, err |-> "nil"]

\* C16: with a single registered handler that always fails, a message that
\* was delivered is never discarded and its redelivery never stops: some
\* goroutine of the queue can always take a step.
C16_UnboundedRedelivery ==
    \A m \in Copies :
        (/\ RegistersMade = 1
         /\ Len(disps) = 1
         /\ disps[1].f = "failAlways"
         /\ Count(m) >= 1
         /\ Len(log) < MaxDeliver)
            => (~Discarded(m) /\ ~QueueQuiet)

\* No goroutine of the queue or of Run/Shutdown can take a step.
LifeQuiet == ~ENABLED (QueueProgress \/ RunProgress)

\* C17: once Shutdown has been invoked and the program has come to rest,
\* every stream's channel is closed and every dispatcher has terminated.
C17_ShutdownStopsStreams ==
    (nrun.shutdown > 0 /\ wg.panic = "" /\ LifeQuiet)
        => /\ \A c \in 1..Len(chans) : Closed(c)
           /\ \A d \in 1..Len(disps) : Terminated(d)

\* No goroutine of the queue can take a step, whichever caller it serves.
RaceQuiet == ~ENABLED RaceProgress

\* C18: however concurrent first-use Append and Register calls interleave, no
\* stream name gets more than one channel, and once the program is at rest
\* every message appended to a stream with always-succeeding handlers has
\* been delivered.
C18_OneChannelPerStream ==
    /\ Len(chans) <= Cardinality(DOMAIN queue)
    /\ (RaceQuiet /\ Len(disps) >= 1 /\ AllHandlersOk)
          => \A m \in Copies : Count(m) >= 1

\* The step is the write-back (setItem) that completes caller t's counter
\* call or Expire, and the last write to its key was made by another caller
\* while t's call was in progress.
WritesBackOver(t, ops) ==
    /\ pc[t] = "store"
    /\ pc'[t] = "idle"
    /\ Locked(call[t].op)
    /\ lastw[call[t].key].op \in ops
    /\ t \in lastw[call[t].key].during

\* C19: a counter call or Expire that was in progress when a Del of its key
\* completed leaves the key absent, and an Expire that was in progress when a
\* Set of its key completed leaves the Set's entry in place.
C19_NoStaleWriteBack ==
    [][\A t \in Callers :
          /\ WritesBackOver(t, {"Del", "HashDel"}) => call[t].key \notin DOMAIN items'
          /\ (WritesBackOver(t, {"Set"}) /\ call[t].op = "Expire")
                => (/\ call[t].key \in DOMAIN items
                    /\ call[t].key \in DOMAIN items'
                    /\ items'[call[t].key] = items[call[t].key])]_vars

\* C20: whatever the order of the Run and Shutdown calls, the WaitGroup
\* counter is never negative and Shutdown never panics on it.
C20_CounterNotNegative ==
    /\ wg.v >= 0
    /\ wg.panic # "negative WaitGroup counter"

====
